---- MODULE Spec2Model ----
(***************************************************************************)
(* A model of the dvub/funih compressor plug-in (src/src/lib.rs and        *)
(* src/src/params.rs): the gain computer calculate_gain_reduction, the     *)
(* parameter set GainParams, and the block loop of Gain::process.          *)
(*                                                                         *)
(* Numbers.  Decibel quantities are exact rationals extended with the IEEE *)
(* special values NaN, +inf and -inf (records [k, n, d]); rounding of f32  *)
(* arithmetic is not modelled.  Linear amplitudes (levels, multipliers,    *)
(* samples) are kept in the form 0, 10^(e/20) or NaN (records [k, e]), so  *)
(* that the logarithm and the exponential of util::gain_to_db_fast and     *)
(* util::db_to_gain_fast are exact.                                        *)
(***************************************************************************)
EXTENDS Integers, Sequences, FiniteSets, TLC

(***************************************************************************)
(* Extended rational arithmetic (the f32 operators used by the code).      *)
(***************************************************************************)
IAbs(x) == IF x < 0 THEN -x ELSE x

ISign(x) == IF x < 0 THEN -1 ELSE IF x > 0 THEN 1 ELSE 0

RECURSIVE Gcd(_, _)
Gcd(a, b) == IF b = 0 THEN a ELSE Gcd(b, a % b)

\* The rational n/d in lowest terms with a positive denominator.
Num(n, d) ==
    LET s == IF d < 0 THEN -1 ELSE 1
        g == Gcd(IAbs(n), IAbs(d))
    IN  [k |-> "num", n |-> (s * n) \div g, d |-> IAbs(d) \div g]

NaN == [k |-> "nan", n |-> 0, d |-> 1]

PosInf == [k |-> "inf", n |-> 1, d |-> 1]

NegInf == [k |-> "inf", n |-> -1, d |-> 1]

IsNum(a) == a.k = "num"

IsNaN(a) == a.k = "nan"

IsInf(a) == a.k = "inf"

Inf(sign) == IF sign < 0 THEN NegInf ELSE PosInf

FNeg(a) == IF IsNaN(a) THEN NaN ELSE [a EXCEPT !.n = -a.n]

FAdd(a, b) ==
    IF IsNaN(a) \/ IsNaN(b) THEN NaN
    ELSE IF IsInf(a) THEN (IF IsInf(b) /\ b.n # a.n THEN NaN ELSE a)
    ELSE IF IsInf(b) THEN b
    ELSE Num(a.n * b.d + b.n * a.d, a.d * b.d)

FSub(a, b) == FAdd(a, FNeg(b))

FMul(a, b) ==
    IF IsNaN(a) \/ IsNaN(b) THEN NaN
    ELSE IF IsInf(a) \/ IsInf(b)
         THEN (IF a.n = 0 \/ b.n = 0 THEN NaN ELSE Inf(ISign(a.n) * ISign(b.n)))
    ELSE Num(a.n * b.n, a.d * b.d)

FDiv(a, b) ==
    IF IsNaN(a) \/ IsNaN(b) THEN NaN
    ELSE IF IsInf(a) THEN (IF IsInf(b) THEN NaN
                           ELSE Inf(a.n * (IF b.n < 0 THEN -1 ELSE 1)))
    ELSE IF IsInf(b) THEN Num(0, 1)
    ELSE IF b.n = 0 THEN (IF a.n = 0 THEN NaN ELSE Inf(ISign(a.n)))
    ELSE Num(a.n * b.d, a.d * b.n)

FAbs(a) == IF IsNaN(a) THEN NaN ELSE [a EXCEPT !.n = IAbs(a.n)]

\* a <= b; false as soon as one side is NaN.
FLe(a, b) ==
    IF IsNaN(a) \/ IsNaN(b) THEN FALSE
    ELSE IF IsInf(a) THEN (a.n < 0 \/ (IsInf(b) /\ b.n > 0))
    ELSE IF IsInf(b) THEN b.n > 0
    ELSE a.n * b.d <= b.n * a.d

\* a > b; false as soon as one side is NaN.
FGt(a, b) == ~IsNaN(a) /\ ~IsNaN(b) /\ ~FLe(a, b)

FLt(a, b) == FGt(b, a)

Two == Num(2, 1)

FOne == Num(1, 1)

FZero == Num(0, 1)

(***************************************************************************)
(* Linear amplitudes.                                                      *)
(***************************************************************************)
LinZero == [k |-> "zero", e |-> FZero]

LinNaN == [k |-> "nan", e |-> FZero]

\* 10^(e/20)
Exp10(e) == [k |-> "exp", e |-> e]

LinOne == Exp10(FZero)

LinMul(a, b) ==
    IF a.k = "nan" \/ b.k = "nan" THEN LinNaN
    ELSE IF a.k = "zero" \/ b.k = "zero" THEN LinZero
    ELSE Exp10(FAdd(a.e, b.e))

\* a <= b on linear amplitudes; false as soon as one side is NaN.
LinLe(a, b) ==
    IF a.k = "nan" \/ b.k = "nan" THEN FALSE
    ELSE IF a.k = "zero" THEN TRUE
    ELSE IF b.k = "zero" THEN FALSE
    ELSE FLe(a.e, b.e)

(***************************************************************************)
(* util::gain_to_db_fast and util::db_to_gain_fast as called by the gain   *)
(* computer.  gain_to_db_fast floors its argument at MINUS_INFINITY_GAIN   *)
(* (-100 dB) before the logarithm (f32::max returns the other operand for  *)
(* a NaN); db_to_gain_fast is a bare exponential.                          *)
(***************************************************************************)
MINUS_INFINITY_DB == Num(-100, 1)

gain_to_db_fast(gain) ==
    IF gain.k # "exp" THEN MINUS_INFINITY_DB
    ELSE IF FLe(gain.e, MINUS_INFINITY_DB) THEN MINUS_INFINITY_DB
    ELSE gain.e

db_to_gain_fast(dbs) ==
    IF IsNaN(dbs) THEN LinNaN
    ELSE IF dbs = NegInf THEN LinZero
    ELSE Exp10(dbs)

(***************************************************************************)
(* The gain computer, lib.rs calculate_gain_reduction.                     *)
(***************************************************************************)
powi2(x) == FMul(x, x)

\* C3 mutant: the knee quadratic divided by knee_width instead of 2 * knee_width.
InKneeHalfDivisor(input_db, difference, ratio, knee_width) ==
    LET gain_reduction ==
            FDiv(powi2(FAdd(difference, FDiv(knee_width, Two))), knee_width)
    IN  FAdd(input_db, FMul(FSub(FDiv(FOne, ratio), FOne), gain_reduction))

\* The branch taken when 2 * |difference| <= knee_width.
InKneeReducedDb(input_db, difference, ratio, knee_width) ==
    LET gain_reduction ==
            FDiv(powi2(FAdd(difference, FDiv(knee_width, Two))),
                 FMul(Two, knee_width))
    IN  FAdd(input_db, FMul(FSub(FDiv(FOne, ratio), FOne), gain_reduction))

\* C5 mutant: the excess over the threshold is multiplied by the ratio.
AboveKneeExpanding(threshold, difference, ratio) ==
    FAdd(threshold, FMul(difference, ratio))

\* The branch taken when 2 * difference > knee_width.
AboveKneeReducedDb(threshold, difference, ratio) ==
    FAdd(threshold, FDiv(difference, ratio))

\* C4 mutant: the knee test compares difference instead of |difference|, so
\* every level below the threshold takes the knee branch.
ReducedDbNoAbs(input_db, threshold, ratio, knee_width) ==
    LET difference == FSub(input_db, threshold)
    IN  IF FLe(FMul(Two, difference), knee_width)
        THEN InKneeReducedDb(input_db, difference, ratio, knee_width)
        ELSE IF FGt(FMul(Two, difference), knee_width)
        THEN AboveKneeReducedDb(threshold, difference, ratio)
        ELSE input_db

ReducedDb(input_db, threshold, ratio, knee_width) ==
    LET difference == FSub(input_db, threshold)
    IN  IF FLe(FMul(Two, FAbs(difference)), knee_width)
        THEN InKneeReducedDb(input_db, difference, ratio, knee_width)
        ELSE IF FGt(FMul(Two, difference), knee_width)
        THEN AboveKneeReducedDb(threshold, difference, ratio)
        ELSE input_db

calculate_gain_reduction(gain, threshold, ratio, knee_width) ==
    LET input_db   == gain_to_db_fast(gain)
        reduced_db == ReducedDb(input_db, threshold, ratio, knee_width)
        final_db   == FSub(reduced_db, input_db)
    IN  db_to_gain_fast(final_db)

(***************************************************************************)
(* Bounds of the model.                                                    *)
(***************************************************************************)
\* Host buffers have 0..MaxLen samples, or one sample more than a block.
MaxLen == 2

\* The resynthesizer's sample count is tracked exactly up to MaxFed samples.
MaxFed == 3

(***************************************************************************)
(* Program constants.                                                      *)
(***************************************************************************)
\* fundsp's block size, the argument of buffer.iter_blocks.
MAX_BUFFER_SIZE == 64

\* The resynthesizer's window, which is also its latency in samples.
window_length == 512

DEFAULT_THRESHOLD == Num(-10, 1)

DEFAULT_RATIO == Num(4, 1)

DEFAULT_KNEE == Num(5, 1)

DEFAULT_ATTACK_TIME == Num(1, 1000)

DEFAULT_RELEASE_TIME == Num(5, 100)

\* The response time of the compressor's follower, follow(0.01).
FOLLOW_RESPONSE_TIME == Num(1, 100)

(***************************************************************************)
(* State.                                                                  *)
(***************************************************************************)
VARIABLES
    params,         \* GainParams: the current value of every parameter
    rms,            \* Gain.rms, shared(0.0)
    peak,           \* Gain.peak, shared(0.0)
    amplitude,      \* Gain.amplitude, shared(1.0)
    input_buffer,   \* Gain.input_buffer, 2 channels of MAX_BUFFER_SIZE samples
    output_buffer,  \* Gain.output_buffer
    graphFed,       \* samples the resynthesizer has consumed (up to MaxFed)
    channels,       \* channel count of the audio I/O layout in use
    buffer,         \* the host's buffer during a call of process
    hostIn,         \* the samples the host passed to the current or last call
    pc,             \* position of process
    offset,         \* first sample of the current block
    locals,         \* level, threshold, ratio, knee as read for this block
    nTargets,       \* amplitude.set calls made by the current or last call
    status,         \* what the last completed call returned
    gcIn,           \* gain-computer harness: arguments
    gcOut,          \* gain-computer harness: returned multiplier
    gcPc            \* gain-computer harness: "call" or "done"

procVars ==
    <<params, rms, peak, amplitude, input_buffer, output_buffer, graphFed,
      channels, buffer, hostIn, pc, offset, locals, nTargets, status>>

gcVars == <<gcIn, gcOut, gcPc>>

vars == <<procVars, gcVars>>

Min(a, b) == IF a < b THEN a ELSE b

(***************************************************************************)
(* GainParams::new: parameter defaults, and the values the host moves the  *)
(* parameters between (all inside the declared ranges).                    *)
(***************************************************************************)
GainParamsNew ==
    [meter_type   |-> "Rms",
     threshold    |-> DEFAULT_THRESHOLD,
     ratio        |-> DEFAULT_RATIO,
     attack_time  |-> DEFAULT_ATTACK_TIME,
     release_time |-> DEFAULT_RELEASE_TIME,
     knee_width   |-> DEFAULT_KNEE,
     input_gain   |-> LinOne,
     output_gain  |-> LinOne,
     dry_wet      |-> LinOne]

ParamValues ==
    [meter_type   |-> {"Rms", "Peak"},
     threshold    |-> {DEFAULT_THRESHOLD, Num(-100, 1)},
     ratio        |-> {DEFAULT_RATIO},
     attack_time  |-> {DEFAULT_ATTACK_TIME},
     release_time |-> {DEFAULT_RELEASE_TIME},
     knee_width   |-> {DEFAULT_KNEE, Num(0, 1)},
     input_gain   |-> {LinOne},
     output_gain  |-> {LinOne},
     dry_wet      |-> {LinOne, LinZero}]

\* The AUDIO_IO_LAYOUTS: main input and output channel counts.
AUDIO_IO_LAYOUTS == {2, 1}

SampleSet == {LinZero, LinOne}

BufferLens == (0 .. MaxLen) \cup {MAX_BUFFER_SIZE + 1}

\* BufferArray::<U2>::new(): two channels of MAX_BUFFER_SIZE zero samples.
BufferArrayNew == [c \in 0 .. 1 |-> [i \in 0 .. MAX_BUFFER_SIZE - 1 |-> LinZero]]

NoLocals == [level |-> LinZero, threshold |-> FZero, ratio |-> FOne, knee |-> FZero]

\* A host buffer: `samples` frames of `chans` channels, every sample equal to s.
HostBuffer(chans, samples, s) ==
    [samples |-> samples,
     ch      |-> [c \in 0 .. chans - 1 |-> [i \in 0 .. samples - 1 |-> s]]]

(***************************************************************************)
(* Gain::default and the initial state.  The compressor node (monitors of  *)
(* peak and rms, times var(&amplitude) >> follow(0.01)) is built and       *)
(* dropped: graph is the resynthesizer alone.                              *)
(***************************************************************************)
ProcInit ==
    /\ params = GainParamsNew
    /\ rms = LinZero
    /\ peak = LinZero
    /\ amplitude = LinOne
    /\ input_buffer = BufferArrayNew
    /\ output_buffer = BufferArrayNew
    /\ graphFed = 0
    /\ channels \in AUDIO_IO_LAYOUTS
    /\ buffer = HostBuffer(channels, 0, LinZero)
    /\ hostIn = buffer
    /\ pc = "idle"
    /\ offset = 0
    /\ locals = NoLocals
    /\ nTargets = 0
    /\ status = "none"

GcIdle ==
    /\ gcIn = [gain |-> LinZero, threshold |-> DEFAULT_THRESHOLD,
               ratio |-> DEFAULT_RATIO, knee_width |-> DEFAULT_KNEE]
    /\ gcOut = LinOne
    /\ gcPc = "call"

Init == ProcInit /\ GcIdle

(***************************************************************************)
(* The host (or the editor) stores a new value in one parameter.           *)
(***************************************************************************)
SetParam ==
    /\ pc # "panicked"
    /\ \E name \in DOMAIN ParamValues :
         \E v \in ParamValues[name] :
            /\ v # params[name]
            /\ params' = [params EXCEPT ![name] = v]
    /\ UNCHANGED <<rms, peak, amplitude, input_buffer, output_buffer, graphFed,
                   channels, buffer, hostIn, pc, offset, locals, nTargets,
                   status>>
    /\ UNCHANGED gcVars

(***************************************************************************)
(* Gain::process, one step per phase of the block loop.                    *)
(***************************************************************************)
\* C10 mutant: iter_blocks(1), one block per sample.
BlockLenOne(remaining) == Min(remaining, 1)

\* Length of the next block of buffer.iter_blocks(MAX_BUFFER_SIZE).
BlockLen(remaining) == Min(remaining, MAX_BUFFER_SIZE)

CurBlockLen == BlockLen(buffer.samples - offset)

\* The host calls process with a buffer of the layout's channel count.  An
\* empty buffer has no block: process returns at once.
StartProcess ==
    /\ pc = "idle"
    /\ \E n \in BufferLens, s \in SampleSet :
         /\ (n = 0 \/ n > MaxLen) => s = LinOne
         /\ buffer' = HostBuffer(channels, n, s)
         /\ hostIn' = buffer'
         /\ pc' = IF n = 0 THEN "idle" ELSE "copy_in"
         /\ status' = IF n = 0 THEN "Normal" ELSE "none"
    /\ offset' = 0
    /\ nTargets' = 0
    /\ UNCHANGED <<params, rms, peak, amplitude, input_buffer, output_buffer,
                   graphFed, channels, locals>>
    /\ UNCHANGED gcVars

\* "write into input buffer": samples outermost, channels 0..=1 inside;
\* channel_samples.get_mut(channel_index).unwrap() panics on a channel the
\* buffer does not have.
CopyIn ==
    /\ pc = "copy_in"
    /\ IF channels < 2
       THEN /\ input_buffer' =
                 [input_buffer EXCEPT ![0][0] = buffer.ch[0][offset]]
            /\ pc' = "panicked"
       ELSE /\ input_buffer' =
                 [c \in 0 .. 1 |->
                    [i \in 0 .. MAX_BUFFER_SIZE - 1 |->
                       IF i < CurBlockLen THEN buffer.ch[c][offset + i]
                       ELSE input_buffer[c][i]]]
            /\ pc' = "read_params"
    /\ UNCHANGED <<params, rms, peak, amplitude, output_buffer, graphFed,
                   channels, buffer, hostIn, offset, locals, nTargets, status>>
    /\ UNCHANGED gcVars

\* level, threshold, ratio and knee are read and amplitude is set.
ReadParams ==
    /\ pc = "read_params"
    /\ LET level == IF params.meter_type = "Rms" THEN rms ELSE peak
           threshold == params.threshold
           ratio == params.ratio
           knee == params.knee_width
       IN  /\ locals' = [level |-> level, threshold |-> threshold,
                         ratio |-> ratio, knee |-> knee]
           /\ amplitude' = calculate_gain_reduction(level, threshold, ratio, knee)
    /\ nTargets' = nTargets + 1
    /\ pc' = "graph"
    /\ UNCHANGED <<params, rms, peak, input_buffer, output_buffer, graphFed,
                   channels, buffer, hostIn, offset, status>>
    /\ UNCHANGED gcVars

\* What the resynthesizer writes for a block: silence while fewer than
\* window_length samples have gone in (its latency), afterwards a value of
\* the spectrum-gated, delayed input that this model leaves open.
ResynthOut(fed, blen) ==
    IF fed + blen <= Min(MaxFed, window_length) THEN {LinZero} ELSE SampleSet

\* self.graph.process(block.samples(), input_buffer, output_buffer)
GraphProcess ==
    /\ pc = "graph"
    /\ \E y \in ResynthOut(graphFed, CurBlockLen) :
         output_buffer' =
            [c \in 0 .. 1 |->
               [i \in 0 .. MAX_BUFFER_SIZE - 1 |->
                  IF i < CurBlockLen THEN y ELSE output_buffer[c][i]]]
    /\ graphFed' = Min(graphFed + CurBlockLen, MaxFed)
    /\ pc' = "copy_out"
    /\ UNCHANGED <<params, rms, peak, amplitude, input_buffer, channels,
                   buffer, hostIn, offset, locals, nTargets, status>>
    /\ UNCHANGED gcVars

\* "write from output buffer", then the next block or return Normal.
CopyOut ==
    /\ pc = "copy_out"
    /\ IF channels < 2
       THEN /\ buffer' = [buffer EXCEPT !.ch[0][offset] = output_buffer[0][0]]
            /\ pc' = "panicked"
            /\ UNCHANGED <<offset, status>>
       ELSE /\ buffer' =
                 [buffer EXCEPT !.ch =
                    [c \in 0 .. 1 |->
                       [i \in 0 .. buffer.samples - 1 |->
                          IF i >= offset /\ i < offset + CurBlockLen
                          THEN output_buffer[c][i - offset]
                          ELSE buffer.ch[c][i]]]]
            /\ offset' = offset + CurBlockLen
            /\ pc' = IF offset' < buffer.samples THEN "copy_in" ELSE "idle"
            /\ status' = IF offset' < buffer.samples THEN "none" ELSE "Normal"
    /\ UNCHANGED <<params, rms, peak, amplitude, input_buffer, output_buffer,
                   graphFed, channels, hostIn, locals, nTargets>>
    /\ UNCHANGED gcVars

Next ==
    \/ SetParam
    \/ StartProcess
    \/ CopyIn
    \/ ReadParams
    \/ GraphProcess
    \/ CopyOut

Spec == Init /\ [][Next]_vars

(***************************************************************************)
(* The gain computer on its own: arguments drawn from the parameter ranges *)
(* (threshold -100..5, ratio 1..100, knee width 0..20) and levels >= 0.    *)
(***************************************************************************)
GcLevelDbs ==
    {Num(-20, 1), Num(-25, 2), Num(-11, 1), Num(-9, 1), Num(-15, 2),
     Num(-5, 1), Num(0, 1), Num(6, 1)}

GcGains == {LinZero} \cup {Exp10(e) : e \in GcLevelDbs}

GcThresholds == {Num(-50, 1), DEFAULT_THRESHOLD, Num(0, 1), Num(5, 1)}

GcRatios == {Num(1, 1), Num(2, 1), DEFAULT_RATIO, Num(100, 1)}

GcKnees == {Num(0, 1), Num(2, 1), DEFAULT_KNEE, Num(20, 1)}

GcInit ==
    /\ ProcInit
    /\ gcIn \in [gain : GcGains, threshold : GcThresholds,
                 ratio : GcRatios, knee_width : GcKnees]
    /\ gcOut = LinOne
    /\ gcPc = "call"

GainComputer ==
    /\ gcPc = "call"
    /\ gcOut' = calculate_gain_reduction(gcIn.gain, gcIn.threshold,
                                         gcIn.ratio, gcIn.knee_width)
    /\ gcPc' = "done"
    /\ UNCHANGED gcIn
    /\ UNCHANGED procVars

GcNext == GainComputer

SpecGC == GcInit /\ [][GcNext]_vars

\* input_db and difference of the harness call.
GcInputDb == gain_to_db_fast(gcIn.gain)

GcDifference == FSub(GcInputDb, gcIn.threshold)

GcDone == gcPc = "done"

(***************************************************************************)
(* Claims about the gain computer (checked under SpecGC).                  *)
(***************************************************************************)
\* C1: with ratio = 1 the gain computer returns exactly 1.0 for every valid
\* level, threshold and knee width (knee width 0 included).
C1_UnityRatioReturnsOne ==
    (GcDone /\ gcIn.ratio = FOne) => gcOut = LinOne

\* The hard-knee law: final_db as a function of difference and ratio.
HardKneeFinalDb(difference, ratio) ==
    IF FLe(difference, FZero) THEN FZero
    ELSE FSub(FDiv(difference, ratio), difference)

\* C2: with knee_width = 0 the gain computer equals the hard-knee law for
\* every difference, difference = 0 included, where the result is a number.
C2_ZeroKneeIsHardKnee ==
    (GcDone /\ gcIn.knee_width = FZero)
        => gcOut = db_to_gain_fast(HardKneeFinalDb(GcDifference, gcIn.ratio))

\* C3: for knee_width > 0 the gain computer is continuous at both edges of
\* the knee: at difference = +knee_width/2 its result is the one of the
\* above-knee formula, at difference = -knee_width/2 the one of the
\* below-knee branch (no reduction).
C3_ContinuousAtKneeEdges ==
    (GcDone /\ FGt(gcIn.knee_width, FZero)) =>
        /\ FMul(Two, GcDifference) = gcIn.knee_width =>
              gcOut = db_to_gain_fast(
                         FSub(AboveKneeReducedDb(gcIn.threshold, GcDifference,
                                                 gcIn.ratio),
                              GcInputDb))
        /\ FMul(Two, GcDifference) = FNeg(gcIn.knee_width) =>
              gcOut = db_to_gain_fast(FSub(GcInputDb, GcInputDb))

C3_Witness ==
    /\ GcDone
    /\ FGt(gcIn.knee_width, FZero)
    /\ FMul(Two, GcDifference) = gcIn.knee_width
    /\ FGt(gcIn.ratio, FOne)
    /\ gcOut # LinOne

\* C4 as claimed: for ratio >= 1 the multiplier is <= 1.0 whenever the level
\* is above the threshold and exactly 1.0 whenever it is below the threshold.
C4_OneBelowThreshold ==
    (GcDone /\ FLe(FOne, gcIn.ratio)) =>
        /\ FGt(GcDifference, FZero) => LinLe(gcOut, LinOne)
        /\ FLt(GcDifference, FZero) => gcOut = LinOne

\* C4 as amended: for ratio >= 1 the multiplier is <= 1.0 whenever the level
\* is above the threshold, exactly 1.0 whenever the level is below the knee
\* (2 * difference < -knee_width), and, for a level below the threshold but
\* inside the knee, <= 1.0 and different from 1.0 when ratio > 1 and
\* 2 * difference > -knee_width.
C4_OneBelowKnee ==
    (GcDone /\ FLe(FOne, gcIn.ratio)) =>
        /\ FGt(GcDifference, FZero) => LinLe(gcOut, LinOne)
        /\ FLt(FMul(Two, GcDifference), FNeg(gcIn.knee_width)) => gcOut = LinOne
        /\ (/\ FLt(GcDifference, FZero)
            /\ FLe(FNeg(gcIn.knee_width), FMul(Two, GcDifference)))
              => /\ LinLe(gcOut, LinOne)
                 /\ (/\ FGt(gcIn.ratio, FOne)
                     /\ FLt(FNeg(gcIn.knee_width), FMul(Two, GcDifference)))
                       => gcOut # LinOne

C4_Witness ==
    /\ GcDone
    /\ FGt(gcIn.ratio, FOne)
    /\ FLt(GcDifference, FZero)
    /\ FLt(FNeg(gcIn.knee_width), FMul(Two, GcDifference))
    /\ LinLe(gcOut, LinOne)
    /\ gcOut # LinOne

\* The call of the end-to-end example: -5 dB, threshold -10 dB, ratio 4, knee 0.
C5_Case ==
    /\ GcDone
    /\ gcIn.gain = Exp10(Num(-5, 1))
    /\ gcIn.threshold = Num(-10, 1)
    /\ gcIn.ratio = Num(4, 1)
    /\ gcIn.knee_width = FZero

\* C5 as claimed: for -5 dB, threshold -10 dB, ratio 4 and knee 0 the static
\* gain reduction final_db is -1.25 dB.
C5_ReductionIsMinus125 == C5_Case => gcOut = db_to_gain_fast(Num(-125, 100))

\* C5 as amended: for -5 dB, threshold -10 dB, ratio 4 and knee 0 the static
\* gain reduction final_db is -3.75 dB: the 5 dB of excess is reduced to
\* 1.25 dB above the threshold (reduced_db = -8.75 dB).
C5_ReductionIsMinus375 ==
    C5_Case =>
        /\ gcOut = db_to_gain_fast(Num(-375, 100))
        /\ FSub(ReducedDb(GcInputDb, gcIn.threshold, gcIn.ratio,
                          gcIn.knee_width),
                gcIn.threshold) = Num(125, 100)

C5_Witness == C5_Case /\ gcOut # LinOne

(***************************************************************************)
(* Claims about process and the parameter set (checked under Spec).        *)
(***************************************************************************)
Returned == pc = "idle" /\ status = "Normal"

\* C6: for every declared layout (stereo and mono) and every buffer length,
\* process runs to completion: no step of the block loop panics.
C6_ProcessNeverPanics == pc # "panicked"

\* The dry/wet blend at the two ends of the dry_wet range.
Blend(dry_wet, wet, dry) ==
    IF wet.k = "nan" \/ dry.k = "nan" THEN LinNaN
    ELSE IF dry_wet = LinZero THEN dry
    ELSE wet

\* C7: the samples process writes back satisfy
\* output = dry_wet * wet + (1 - dry_wet) * dry, where dry is the
\* input-gain-adjusted input sample and wet the compressed one.
C7_DryWetLaw ==
    Returned =>
        \A c \in DOMAIN buffer.ch :
            \A i \in DOMAIN buffer.ch[c] :
                LET dry == LinMul(params.input_gain, hostIn.ch[c][i])
                    wet == LinMul(amplitude, dry)
                IN  buffer.ch[c][i] = Blend(params.dry_wet, wet, dry)

\* The time constant with which the compressor's follower, follow(0.01),
\* moves from `current` towards `target`.
FollowTime(current, target) == FOLLOW_RESPONSE_TIME

FollowerSteps == {<<LinOne, Exp10(Num(-6, 1))>>, <<Exp10(Num(-6, 1)), LinOne>>}

\* C8: the envelope follower is asymmetric: towards a lower target it uses
\* the time constant of attack_time, towards a higher one that of
\* release_time, and the two differ whenever attack_time # release_time.
C8_AsymmetricFollower ==
    \A st \in FollowerSteps :
        LET current == st[1]
            target == st[2]
        IN  /\ (LinLe(target, current) /\ target # current)
                  => FollowTime(current, target) = params.attack_time
            /\ (LinLe(current, target) /\ target # current)
                  => FollowTime(current, target) = params.release_time
            /\ params.attack_time # params.release_time
                  => FollowTime(current, target) # FollowTime(target, current)

\* C9: every processed sample updates the rms and peak accumulators, so
\* after a call that processed a non-zero sample the detector level is no
\* longer at its initial value.
C9_DetectorFollowsInput ==
    (/\ Returned
     /\ \E c \in DOMAIN hostIn.ch :
           \E i \in DOMAIN hostIn.ch[c] : hostIn.ch[c][i] # LinZero)
        => (rms # LinZero /\ peak # LinZero)

NumBlocks(n) == (n + MAX_BUFFER_SIZE - 1) \div MAX_BUFFER_SIZE

====
